---- MODULE Spec2Model ----
(***************************************************************************)
(* Model of sync_member_posts.py (class MemberPostSync): the parser, the   *)
(* destination resolver, the renderer, the create/update/skip decision     *)
(* and the member/document loops of a sync run.                            *)
(*                                                                         *)
(* Strings whose characters matter (directory names, user names, file      *)
(* text) are sequences of one-character or one-token strings.  YAML values *)
(* are tagged records, so that a scalar, a list, a null and an absent key  *)
(* stay different values, as they are in Python.                           *)
(***************************************************************************)
EXTENDS Integers, Sequences, FiniteSets, TLC

(***************************************************************************)
(* Bounds of the model.                                                    *)
(***************************************************************************)
MaxBodyLen == 3
MaxCats == 2
MaxRuns == 2
MaxFaults == 1

(***************************************************************************)
(* Sequences and text.                                                     *)
(***************************************************************************)
RECURSIVE SeqsUpTo(_, _)
SeqsUpTo(S, n) ==
  IF n = 0 THEN {<<>>}
  ELSE LET prev == SeqsUpTo(S, n - 1)
       IN  prev \cup {Append(q, x) : q \in {p \in prev : Len(p) = n - 1}, x \in S}

InSeq(x, q) == \E i \in 1..Len(q) : q[i] = x

RECURSIVE Concat(_)
Concat(qq) == IF qq = <<>> THEN <<>> ELSE Head(qq) \o Concat(Tail(qq))

\* str.strip() with no argument removes leading and trailing whitespace.
Whitespace == {"CR", "LF", "SP"}

RECURSIVE LStrip(_)
LStrip(t) == IF t # <<>> /\ Head(t) \in Whitespace THEN LStrip(Tail(t)) ELSE t

RECURSIVE RStrip(_)
RStrip(t) ==
  IF t # <<>> /\ t[Len(t)] \in Whitespace THEN RStrip(SubSeq(t, 1, Len(t) - 1)) ELSE t

Strip(t) == RStrip(LStrip(t))

\* str.strip('/') on a path given as tokens.
RECURSIVE StripSlashes(_)
StripSlashes(p) ==
  IF p # <<>> /\ Head(p) = "/" THEN StripSlashes(Tail(p))
  ELSE IF p # <<>> /\ p[Len(p)] = "/" THEN StripSlashes(SubSeq(p, 1, Len(p) - 1))
  ELSE p

\* str.lower(), character by character.
LowerChar(c) ==
  CASE c = "A" -> "a"
    [] c = "B" -> "b"
    [] c = "L" -> "l"
    [] OTHER -> c

Lower(s) == [i \in 1..Len(s) |-> LowerChar(s[i])]

\* open(path, 'w', encoding='utf-8').write(text): text mode with newline=None
\* writes every '\n' as os.linesep and everything else as it is.
Linesep == <<"LF">>

RECURSIVE WriteText(_)
WriteText(t) ==
  IF t = <<>> THEN <<>>
  ELSE (IF Head(t) = "LF" THEN Linesep ELSE <<Head(t)>>) \o WriteText(Tail(t))

\* open(path, 'r', encoding='utf-8').read(): text mode with newline=None
\* (universal newlines) returns '\r\n' and a lone '\r' as '\n'.
RECURSIVE ReadText(_)
ReadText(b) ==
  IF b = <<>> THEN <<>>
  ELSE IF Head(b) = "CR"
       THEN IF Len(b) >= 2 /\ b[2] = "LF"
            THEN <<"LF">> \o ReadText(SubSeq(b, 3, Len(b)))
            ELSE <<"LF">> \o ReadText(Tail(b))
       ELSE <<Head(b)>> \o ReadText(Tail(b))

(***************************************************************************)
(* YAML values as yaml.safe_load returns them.                             *)
(***************************************************************************)
Absent == [tag |-> "absent", s |-> "", l |-> <<>>]
Null == [tag |-> "null", s |-> "", l |-> <<>>]
Str(x) == [tag |-> "str", s |-> x, l |-> <<>>]
List(q) == [tag |-> "list", s |-> "", l |-> q]
\* any other value (a number, a mapping): s is what str() makes of it
Other(x) == [tag |-> "other", s |-> x, l |-> <<>>]

\* dict.get(key, default)
Get(v, default) == IF v.tag = "absent" THEN default ELSE v

Marker == "member-publication"

\* Iterating a Python str yields its characters.
CharsOf(s) ==
  CASE s = "p" -> <<"p">>
    [] s = "paper" -> <<"p", "a", "p", "e", "r">>
    [] s = "x" -> <<"x">>
    [] s = "news" -> <<"n", "e", "w", "s">>
    [] s = "member-publication" ->
         <<"m", "e", "m", "b", "e", "r", "-", "p", "u", "b", "l", "i", "c", "a", "t", "i", "o", "n">>
    [] OTHER -> <<>>

\* x in s for Python strings x, s: substring test.
IsSubstring(x, s) ==
  LET cx == CharsOf(x)
      cs == CharsOf(s)
  IN  \E i \in 0..Len(cs) : i + Len(cx) <= Len(cs) /\ SubSeq(cs, i + 1, i + Len(cx)) = cx

(***************************************************************************)
(* Documents.  A raw document is what the remote returns for index.qmd:    *)
(* head says whether the text starts with '---' and holds a second '---'   *)
(* ("delim2"), starts with '---' and holds no other ("delim1") or does not *)
(* start with it ("none"); meta is what yaml.safe_load makes of the block  *)
(* between the two delimiters; body is the text after them.                *)
(***************************************************************************)
EmptyFm ==
  [title |-> Absent, author |-> Absent, categories |-> Absent,
   type |-> Absent, source |-> Absent, doi |-> Absent]

\* filename.replace('.qmd', '').replace('-', ' ').title()
TitleFromFilename(filename) ==
  CASE filename = "index.qmd" -> "Index"
    [] OTHER -> filename

NoPublication ==
  [title |-> Absent, author |-> Absent, categories |-> Absent, content |-> <<>>,
   filename |-> "", original_frontmatter |-> EmptyFm]

\* _parse_qmd_content: ok = FALSE is the None the except clause returns.
ParseQmdContent(raw, filename, member) ==
  IF raw.head = "delim2"
  THEN IF raw.meta.kind = "map"
       THEN LET frontmatter == raw.meta.fm
            IN  [ok |-> TRUE,
                 pub |-> [title |-> Get(frontmatter.title, Str(TitleFromFilename(filename))),
                          author |-> Get(frontmatter.author, Str(member.name)),
                          categories |-> Get(frontmatter.categories, List(<<>>)),
                          content |-> Strip(raw.body),
                          filename |-> filename,
                          original_frontmatter |-> frontmatter]]
       \* yaml.YAMLError, or frontmatter.get on None or on a scalar
       ELSE [ok |-> FALSE, pub |-> NoPublication]
  ELSE [ok |-> TRUE,
        pub |-> [title |-> Str(TitleFromFilename(filename)),
                 author |-> List(<<member.name>>),
                 categories |-> List(<<"research">>),
                 content |-> (IF raw.head = "delim1" THEN <<"---">> ELSE <<>>) \o raw.body,
                 filename |-> filename,
                 original_frontmatter |-> EmptyFm]]

(***************************************************************************)
(* Destination resolver.                                                   *)
(***************************************************************************)
DefaultTypeMapping ==
  [t \in {"paper", "publication", "report", "post", "blog"} |->
     CASE t \in {"paper", "publication"} -> <<"papers">>
       [] t = "report" -> <<"reports">>
       [] OTHER -> <<"posts">>]

\* for category in categories: the items of a list, the characters of a str;
\* anything else is not iterable.
Iterable(v) == v.tag \in {"list", "str"}
IterItems(v) == IF v.tag = "list" THEN v.l ELSE CharsOf(v.s)

RECURSIVE FirstMapped(_, _)
FirstMapped(items, mapping) ==
  IF items = <<>> THEN <<>>
  ELSE IF Head(items) \in DOMAIN mapping THEN <<Head(items)>>
  ELSE FirstMapped(Tail(items), mapping)

\* sync_config.get('type_mapping', {...defaults...})
TypeMappingOf(cfg) == IF cfg.has_type_mapping THEN cfg.type_mapping ELSE DefaultTypeMapping

\* _get_destination_subdir: ok = FALSE is an exception leaving the function.
GetDestinationSubdir(post, member, cfg) ==
  IF member.has_destination_path
  THEN [ok |-> TRUE, dir |-> StripSlashes(member.destination_path)]
  ELSE LET categories == Get(post.categories, List(<<>>))
       IN  IF ~Iterable(categories)
           THEN [ok |-> FALSE, dir |-> <<>>]
           ELSE LET hit == FirstMapped(IterItems(categories), cfg.category_mapping)
                    post_type == Get(post.original_frontmatter.type, Str("post"))
                    type_mapping == TypeMappingOf(cfg)
                IN  IF hit # <<>>
                    THEN [ok |-> TRUE, dir |-> StripSlashes(cfg.category_mapping[hit[1]])]
                    ELSE IF post_type.tag = "str" /\ post_type.s \in DOMAIN type_mapping
                    THEN [ok |-> TRUE, dir |-> type_mapping[post_type.s]]
                    ELSE [ok |-> TRUE, dir |-> <<"posts">>]

(***************************************************************************)
(* Rendering.                                                              *)
(***************************************************************************)
\* local_dir_name = f"{member['username'].lower()}-{directory_name}"
LocalDirName(username, directory_name) == Lower(username) \o <<"-">> \o directory_name

\* lines 343-348: the author as a list
NormalizeAuthor(author_value) ==
  IF author_value.tag = "str" THEN List(<<author_value.s>>)
  ELSE IF author_value.tag # "list"
       THEN List(<<IF author_value.tag = "null" THEN "None" ELSE author_value.s>>)
  ELSE author_value

\* 'member-publication' not in categories: raises on a value with no 'in'.
HasIn(v) == v.tag \in {"list", "str"}
Contains(v, x) == IF v.tag = "list" THEN InSeq(x, v.l) ELSE IsSubstring(x, v.s)

\* lines 356-358: ok = FALSE is the TypeError of 'in' on None or a number, or the
\* AttributeError of str.append.
EnsureMarker(categories) ==
  IF ~HasIn(categories) THEN [ok |-> FALSE, v |-> categories]
  ELSE IF Contains(categories, Marker) THEN [ok |-> TRUE, v |-> categories]
  ELSE IF categories.tag = "list" THEN [ok |-> TRUE, v |-> List(Append(categories.l, Marker))]
  ELSE [ok |-> FALSE, v |-> categories]

\* lines 374-379: append each original category the list does not hold yet
RECURSIVE MergeCategories(_, _)
MergeCategories(categories, original_cats) ==
  IF original_cats = <<>> THEN categories
  ELSE IF Contains(categories, Head(original_cats))
       THEN MergeCategories(categories, Tail(original_cats))
       ELSE MergeCategories(List(Append(categories.l, Head(original_cats))), Tail(original_cats))

\* lines 361-367
SourceOf(publication, member) ==
  [member |-> member.name, username |-> member.username,
   original_url |-> publication.source_url, github_path |-> publication.github_path,
   directory |-> publication.directory_name]

\* line 387
Attribution(member) ==
  <<"LF", "LF", "---", "LF", "LF", "*originally published by", member.name,
    member.profile_url, "*">>

\* yaml.dump of one key: block style, one line per scalar, one item per line.
DumpValue(key, v) ==
  CASE v.tag = "absent" -> <<>>
    [] v.tag = "null" -> <<key, "null", "LF">>
    [] v.tag = "list" ->
         IF v.l = <<>> THEN <<key, "[]", "LF">>
         ELSE <<key, "LF">> \o Concat([i \in 1..Len(v.l) |-> <<"-", v.l[i], "LF">>])
    [] OTHER -> <<key, v.s, "LF">>

\* yaml.dump(frontmatter, default_flow_style=False): keys in sorted order.
YamlDump(fm) ==
  DumpValue("author:", fm.author) \o DumpValue("categories:", fm.categories)
  \o DumpValue("doi:", fm.doi)
  \o <<"source:", "LF", "directory:">> \o fm.source.directory
  \o <<"LF", "github_path:">> \o fm.source.github_path
  \o <<"LF", "member:", fm.source.member, "LF", "original_url:">> \o fm.source.original_url
  \o <<"LF", "username:">> \o fm.source.username \o <<"LF">>
  \o DumpValue("title:", fm.title) \o DumpValue("type:", fm.type)

\* _create_local_post.  ok = FALSE is an exception leaving the function.
\* index_path is the local directory of index.qmd under publications/.
\* publication is the publication dict after the call: frontmatter['categories']
\* is the very list publication['categories'] holds (line 353) and, when the
\* metadata block has the key, the list original_frontmatter['categories'] holds
\* (line 277), so the append of line 358 shows in all three.
CreateLocalPost(publication, member, cfg) ==
  LET directory_name == publication.directory_name
      local_dir_name == LocalDirName(member.username, directory_name)
      original_fm == publication.original_frontmatter
      author_value == NormalizeAuthor(Get(publication.author, Str(member.name)))
      marked == EnsureMarker(Get(publication.categories, List(<<"research", Marker>>)))
      original_cats ==
        IF original_fm.categories.tag = "absent" THEN <<>>
        ELSE IF original_fm.categories.tag = "list" THEN marked.v.l
        ELSE <<original_fm.categories.s>>
      categories == MergeCategories(marked.v, original_cats)
      frontmatter ==
        [title |-> Get(publication.title, Str("Untitled Publication")),
         author |-> author_value,
         categories |-> categories,
         source |-> SourceOf(publication, member),
         type |-> original_fm.type,
         doi |-> original_fm.doi]
      content ==
        publication.content \o (IF cfg.add_attribution THEN Attribution(member) ELSE <<>>)
      full_content == <<"---", "LF">> \o YamlDump(frontmatter) \o <<"---", "LF", "LF">> \o content
      after ==
        [publication EXCEPT
           !.categories = IF @.tag = "list" THEN categories ELSE @,
           !.original_frontmatter.categories = IF @.tag = "list" THEN categories ELSE @]
  IN  IF ~marked.ok
      THEN [ok |-> FALSE, index_path |-> local_dir_name, content |-> <<>>,
            image_downloads |-> <<>>, frontmatter |-> EmptyFm, publication |-> publication]
      ELSE [ok |-> TRUE, index_path |-> local_dir_name, content |-> full_content,
            image_downloads |-> publication.image_files,
            frontmatter |-> frontmatter, publication |-> after]

(***************************************************************************)
(* The remote.  A response is its status code, 0 when the request raised   *)
(* and _safe_request returned None.                                        *)
(***************************************************************************)
NoResponse == 0

\* 'if response': a requests.Response is true when its status is below 400.
Truthy(status) == status # NoResponse /\ status < 400

\* 'response and response.status_code == 200'
Ok200(status) == Truthy(status) /\ status = 200

\* known_directories of the raw fallback (line 110)
KnownDirectory == <<"2", "0", "2", "5", "0", "9", "1", "7", "_", "t", "e", "s", "t">>

\* image_extensions of the raw fallback, in probing order (line 131)
ImageExtensions == <<"jpg", "jpeg", "png", "gif", "svg">>

\* name.lower().startswith('featured.') and name.lower().endswith(('.png', ...))
IsFeaturedImage(name) ==
  name \in {"featured.png", "featured.jpg", "featured.jpeg", "featured.gif", "featured.svg",
            "Featured.PNG"}

PublicationsPath(member) ==
  StripSlashes(IF member.has_publications_path THEN member.publications_path
               ELSE <<"/", "publications">>)

GithubPath(publications_path, dir_name) ==
  publications_path \o <<"/">> \o dir_name \o <<"/", "index.qmd">>

\* the dict the fetchers return: the parsed publication plus the directory's data
WithDirectory(pub, dir_name, publications_path, image_files) ==
  [title |-> pub.title, author |-> pub.author, categories |-> pub.categories,
   content |-> pub.content, filename |-> pub.filename,
   original_frontmatter |-> pub.original_frontmatter,
   directory_name |-> dir_name,
   source_url |-> <<"blob/main/">> \o GithubPath(publications_path, dir_name),
   github_path |-> GithubPath(publications_path, dir_name),
   image_files |-> image_files]

RECURSIVE FeaturedImages(_)
FeaturedImages(files) ==
  IF files = <<>> THEN <<>>
  ELSE (IF IsFeaturedImage(Head(files).name)
        THEN <<[name |-> Head(files).name, status |-> Head(files).status]>> ELSE <<>>)
       \o FeaturedImages(Tail(files))

\* _process_publication_directory: <<>> is the None it returns.
ProcessPublicationDirectory(item, member) ==
  IF ~Truthy(item.content) \/ item.content # 200 THEN <<>>
  ELSE LET parsed == ParseQmdContent(item.doc, "index.qmd", member)
       IN  IF ~parsed.ok THEN <<>>
           ELSE <<WithDirectory(parsed.pub, item.name, PublicationsPath(member),
                                FeaturedImages(item.files))>>

\* _parse_posts_from_github_api
RECURSIVE ParsePostsFromGithubApi(_, _)
ParsePostsFromGithubApi(api_response, member) ==
  IF api_response = <<>> THEN <<>>
  ELSE LET item == Head(api_response)
           here ==
             IF item.type = "dir" /\ ~(item.name # <<>> /\ Head(item.name) = "_")
             THEN IF Ok200(item.listing)
                  THEN IF \E i \in 1..Len(item.files) : item.files[i].name = "index.qmd"
                       THEN ProcessPublicationDirectory(item, member)
                       ELSE <<>>
                  ELSE <<>>
             ELSE <<>>
       IN  here \o ParsePostsFromGithubApi(Tail(api_response), member)

\* lines 131-146: the first extension that resolves, and only that one
RECURSIVE ProbeImage(_, _)
ProbeImage(exts, available) ==
  IF exts = <<>> THEN <<>>
  ELSE IF Head(exts) \in available
       THEN <<[name |-> "featured." \o Head(exts), status |-> 200]>>
       ELSE ProbeImage(Tail(exts), available)

\* _get_posts_via_raw_github
GetPostsViaRawGithub(member, rm) ==
  IF Ok200(rm.raw.index)
  THEN LET parsed == ParseQmdContent(rm.raw.doc, "index.qmd", member)
       IN  IF parsed.ok
           THEN <<WithDirectory(parsed.pub, KnownDirectory, PublicationsPath(member),
                                ProbeImage(ImageExtensions, rm.raw.images))>>
           ELSE <<>>
  ELSE <<>>

\* _get_posts_from_member_site: the three branches of lines 76-93
GetPostsFromMemberSite(member, rm) ==
  IF Ok200(rm.listing) THEN ParsePostsFromGithubApi(rm.items, member)
  ELSE IF Truthy(rm.listing)
       THEN IF rm.listing = 404 THEN <<>>
            ELSE IF rm.listing = 403 THEN GetPostsViaRawGithub(member, rm)
            ELSE <<>>
  ELSE GetPostsViaRawGithub(member, rm)

(***************************************************************************)
(* The create/update/skip decision and the exception handlers.             *)
(***************************************************************************)
\* lines 485-500: index_path.exists(), f.read(), the comparison after strip()
Decide(disk, index_path, content) ==
  IF index_path \in DOMAIN disk
  THEN IF Strip(ReadText(disk[index_path])) = Strip(content) THEN "SKIP" ELSE "UPDATE"
  ELSE "CREATE"

\* the root made whatever the mode
EnsureBaseDirAlways(dry, base) == TRUE

\* lines 440-441: whether publications/ exists after the guard
EnsureBaseDir(dry, base) == IF ~dry THEN TRUE ELSE base

\* the exception of a publication leaving the publication loop
AfterPublicationErrorRaise(directory_name) == "raise"

\* lines 514-516: except Exception: log the error, continue with the next publication
AfterPublicationError(directory_name) == "continue"

\* lines 446-448: except Exception: log the error, continue with the next member
AfterMemberError(username) == "continue"

\* destination_dir / 'index.qmd' under base_publications_dir (lines 334-337)
FullPath(local_dir_name) == <<"publications", "/">> \o local_dir_name \o <<"/", "index.qmd">>

(***************************************************************************)
(* Configuration and remote contents the model draws from.                 *)
(***************************************************************************)
MaxPostsDefault == 50

Ann ==
  [username |-> <<"A", "n", "n">>, name |-> "Ann", profile_url |-> "https://ann.example",
   active |-> TRUE, has_publications_path |-> FALSE, publications_path |-> <<>>,
   has_destination_path |-> FALSE, destination_path |-> <<>>]

Bob ==
  [username |-> <<"b", "o", "b">>, name |-> "Bob", profile_url |-> "https://bob.example",
   active |-> FALSE, has_publications_path |-> FALSE, publications_path |-> <<>>,
   has_destination_path |-> FALSE, destination_path |-> <<>>]

Lee ==
  [username |-> <<"l", "e", "e">>, name |-> "Lee", profile_url |-> "https://lee.example",
   active |-> TRUE, has_publications_path |-> TRUE, publications_path |-> <<"/", "pubs", "/">>,
   has_destination_path |-> TRUE, destination_path |-> <<"/", "papers", "/">>]

\* config['members'], in configuration order
Members == <<Ann, Bob, Lee>>

PaperMapping == [c \in {"paper"} |-> <<"papers", "/">>]

\* sync_config: add_attribution and max_posts_per_member as configured
Configs ==
  {[add_attribution |-> c[1], max_posts_per_member |-> c[2], category_mapping |-> PaperMapping,
    has_type_mapping |-> FALSE, type_mapping |-> DefaultTypeMapping] :
     c \in {<<TRUE, MaxPostsDefault>>, <<FALSE, MaxPostsDefault>>, <<TRUE, 1>>}}

BodyChars == {"a", "CR"}
Bodies == {b \in SeqsUpTo(BodyChars, MaxBodyLen) : b # <<>> /\ Strip(b) = b}

PlainDoc(body) == [head |-> "none", meta |-> [kind |-> "null", fm |-> EmptyFm], body |-> body]

FmDoc(fm, body) ==
  [head |-> "delim2", meta |-> [kind |-> "map", fm |-> fm], body |-> <<"LF">> \o body \o <<"LF">>]

MalformedDoc ==
  [head |-> "delim2", meta |-> [kind |-> "malformed", fm |-> EmptyFm], body |-> <<"a">>]

PaperFm(categories) ==
  [EmptyFm EXCEPT !.title = Str("Paper X"), !.categories = categories]

SyncDocs ==
  {PlainDoc(b) : b \in Bodies} \cup {FmDoc(PaperFm(List(<<"paper">>)), b) : b \in Bodies}
  \cup {FmDoc(PaperFm(Str("news")), <<"a">>), MalformedDoc}

IndexFile == [name |-> "index.qmd", status |-> 200]

PubDir(name, doc, files) ==
  [name |-> name, type |-> "dir", listing |-> 200, files |-> <<IndexFile>> \o files,
   content |-> 200, doc |-> doc]

OtherItems ==
  {[name |-> <<"_", "d">>, type |-> "dir", listing |-> 200, files |-> <<IndexFile>>,
    content |-> 200, doc |-> PlainDoc(<<"a">>)],
   [name |-> <<"f">>, type |-> "file", listing |-> 404, files |-> <<>>,
    content |-> 404, doc |-> PlainDoc(<<"a">>)],
   [name |-> <<"n">>, type |-> "dir", listing |-> 200, files |-> <<>>,
    content |-> 404, doc |-> PlainDoc(<<"a">>)],
   [name |-> <<"l">>, type |-> "dir", listing |-> NoResponse, files |-> <<>>,
    content |-> 404, doc |-> PlainDoc(<<"a">>)],
   [name |-> <<"c">>, type |-> "dir", listing |-> 200, files |-> <<IndexFile>>,
    content |-> 500, doc |-> PlainDoc(<<"a">>)],
   PubDir(<<"m">>, MalformedDoc, <<>>),
   PubDir(<<"s">>, FmDoc(PaperFm(Str("news")), <<"a">>), <<>>)}

ImageLists ==
  {<<[name |-> "featured.png", status |-> 200]>>,
   <<[name |-> "featured.png", status |-> 404]>>,
   <<[name |-> "notes.txt", status |-> 200], [name |-> "Featured.PNG", status |-> 200]>>,
   <<[name |-> "featured.png", status |-> NoResponse],
     [name |-> "featured.jpg", status |-> 200]>>}

NoRaw == [index |-> 404, doc |-> PlainDoc(<<"a">>), images |-> {}]

Listed(items) == [listing |-> 200, items |-> items, raw |-> NoRaw]

Unlisted(status, raw) == [listing |-> status, items |-> <<>>, raw |-> raw]

RawAnswers ==
  {NoRaw,
   [index |-> 200, doc |-> PlainDoc(<<"a">>), images |-> {}],
   [index |-> 200, doc |-> FmDoc(PaperFm(List(<<"paper">>)), <<"a">>), images |-> {"png", "svg"}]}

\* what the remote answers for Ann's repository
AnnRemotes ==
  {Listed(<<PubDir(<<"x">>, d, <<>>)>>) : d \in SyncDocs}
  \cup {Listed(<<PubDir(<<"x">>, PlainDoc(<<"a">>), f)>>) : f \in ImageLists}
  \cup {Listed(<<o, PubDir(<<"y">>, PlainDoc(<<"a">>), <<>>)>>) : o \in OtherItems}
  \cup {Listed(<<PubDir(<<"x">>, FmDoc(PaperFm(List(<<"paper">>)), <<"a">>), <<>>),
                 PubDir(<<"y">>, PlainDoc(<<"a">>), <<>>)>>)}
  \cup {Listed(<<PubDir(<<"x">>, PlainDoc(<<"a">>),
                        <<[name |-> "featured.png", status |-> 404],
                          [name |-> "featured.jpg", status |-> 200]>>),
                 PubDir(<<"y">>, PlainDoc(<<"a">>), <<>>)>>)}
  \cup {Unlisted(st, r) : st \in {404, 403, 500, NoResponse}, r \in RawAnswers}

\* what the remote answers for Lee's repository
LeeRemotes ==
  {Unlisted(404, NoRaw),
   Listed(<<PubDir(<<"x">>, FmDoc(PaperFm(List(<<"paper">>)), <<"a">>), <<>>)>>)}

StaleText == <<"---", "LF", "old", "LF">>

\* the local publications tree before the first run
InitialTrees ==
  {[base |-> FALSE, dirs |-> {}, files |-> <<>>, assets |-> {}],
   [base |-> TRUE, dirs |-> {}, files |-> <<>>, assets |-> {}],
   [base |-> TRUE, dirs |-> {LocalDirName(Ann.username, <<"x">>)},
    files |-> (LocalDirName(Ann.username, <<"x">>) :> StaleText), assets |-> {}]}

(***************************************************************************)
(* State.                                                                  *)
(***************************************************************************)
VARIABLES
  remote,          \* what the remote answers, per member name; the same in every run
  config,          \* sync_config, loaded once
  base_exists,     \* publications/ exists
  dirs,            \* local publication directories that exist
  files,           \* index.qmd of each local directory that has one: its stored text
  assets,          \* <<local directory, file name>> of the image files stored
  run,             \* number of runs started
  dry_run,         \* self.dry_run of the current run
  member_filter,   \* member_username the runs are invoked with, <<>> for none
  pc,              \* "idle", "member", "doc", "done" or "crashed"
  active_members,  \* active_members of the current run
  mi,              \* position of the member loop
  publications,    \* publications of the current member, after truncation
  di,              \* position of the publication loop
  counts,          \* created_count, updated_count, skipped_count
  log,             \* what the current run has reported, in order
  visited,         \* members whose sync has ended in the current run
  written,         \* files written in the current run
  tree0,           \* the local tree when the current run started
  faults,          \* local I/O and unexpected failures so far
  last,            \* the publication the loop body handled last
  history,         \* the runs that have ended
  fn,              \* the function under study, "" in a sync
  arg,             \* its arguments
  out,             \* its results
  step             \* how far it has been applied

syncVars ==
  <<remote, config, base_exists, dirs, files, assets, run, dry_run, member_filter, pc,
    active_members, mi, publications, di, counts, log, visited, written, tree0, faults,
    last, history>>

funVars == <<fn, arg, out, step>>

vars == <<syncVars, funVars>>

Tree == [base |-> base_exists, dirs |-> dirs, files |-> files, assets |-> assets]

ZeroCounts == [created |-> 0, updated |-> 0, skipped |-> 0]

NoLast ==
  [valid |-> FALSE, username |-> <<>>, directory_name |-> <<>>, publication |-> NoPublication,
   rendered |-> FALSE, index_path |-> <<>>, content |-> <<>>, existed |-> FALSE,
   before |-> <<>>, action |-> "", image_downloads |-> <<>>, attempts |-> <<>>,
   failed |-> FALSE]

NoArg == [raw |-> PlainDoc(<<>>), member |-> Ann, cfg |-> CHOOSE c \in Configs : TRUE,
          u1 |-> <<>>, d1 |-> <<>>, u2 |-> <<>>, d2 |-> <<>>]

NoOut == [parsed |-> FALSE, rendered |-> FALSE, frontmatter |-> EmptyFm,
          publication |-> NoPublication, again |-> FALSE, frontmatter2 |-> EmptyFm,
          resolved |-> FALSE, dir |-> <<>>, n1 |-> <<>>, n2 |-> <<>>]

\* member_username: none, a configured member, a name the configuration lacks
Filters == {<<>>, Lee.username, <<"z">>}

Init ==
  /\ remote \in {[n \in {"Ann", "Bob", "Lee"} |->
                    IF n = "Ann" THEN a ELSE IF n = "Lee" THEN l ELSE Unlisted(404, NoRaw)] :
                  a \in AnnRemotes, l \in LeeRemotes}
  /\ config \in Configs
  /\ \E t \in InitialTrees :
       /\ base_exists = t.base
       /\ dirs = t.dirs
       /\ files = t.files
       /\ assets = t.assets
       /\ tree0 = t
  /\ run = 0
  /\ dry_run = FALSE
  /\ member_filter \in Filters
  /\ pc = "idle"
  /\ active_members = <<>>
  /\ mi = 1
  /\ publications = <<>>
  /\ di = 1
  /\ counts = ZeroCounts
  /\ log = <<>>
  /\ visited = <<>>
  /\ written = {}
  /\ faults = 0
  /\ last = NoLast
  /\ history = <<>>
  /\ fn = ""
  /\ arg = NoArg
  /\ out = NoOut
  /\ step = "none"

(***************************************************************************)
(* A sync run.                                                             *)
(***************************************************************************)
RECURSIVE SelectSeq2(_, _, _)
SelectSeq2(q, key, wanted) ==
  IF q = <<>> THEN <<>>
  ELSE (IF key = "active" THEN (IF Head(q).active THEN <<Head(q)>> ELSE <<>>)
        ELSE (IF Head(q).username = wanted THEN <<Head(q)>> ELSE <<>>))
       \o SelectSeq2(Tail(q), key, wanted)

\* [m for m in members if m['username'] == member_username]
MembersNamed(members, member_username) == SelectSeq2(members, "username", member_username)

\* [m for m in members if m.get('active', True)]
ActiveMembers(members) == SelectSeq2(members, "active", <<>>)

RunRecord ==
  [dry_run |-> dry_run, member_filter |-> member_filter, log |-> log, visited |-> visited,
   written |-> written, tree0 |-> tree0, faults |-> faults, ended |-> pc]

\* sync_member_posts up to the member loop (lines 426-441); a run may follow a
\* run that has ended.
StartRun(dry, mkdir_ok) ==
  /\ pc \in {"idle", "done", "crashed"}
  /\ run < MaxRuns
  /\ mkdir_ok \/ (~dry /\ ~base_exists /\ faults < MaxFaults)
  /\ LET members == IF member_filter # <<>> THEN MembersNamed(Members, member_filter)
                    ELSE Members
         found == members # <<>>
     IN  /\ run' = run + 1
         /\ dry_run' = dry
         /\ history' = IF run = 0 THEN history ELSE Append(history, RunRecord)
         /\ tree0' = Tree
         /\ log' = <<>>
         /\ visited' = <<>>
         /\ written' = {}
         /\ mi' = 1
         /\ di' = 1
         /\ publications' = <<>>
         /\ counts' = ZeroCounts
         /\ last' = NoLast
         /\ IF ~found
            THEN \* 'not found in configuration': return
                 /\ active_members' = <<>>
                 /\ pc' = "done"
                 /\ UNCHANGED <<base_exists, faults>>
            ELSE /\ active_members' = ActiveMembers(members)
                 /\ IF mkdir_ok
                    THEN /\ base_exists' = EnsureBaseDir(dry, base_exists)
                         /\ pc' = "member"
                         /\ UNCHANGED faults
                    ELSE \* mkdir raises outside every try: the run ends with the exception
                         /\ pc' = "crashed"
                         /\ faults' = faults + 1
                         /\ UNCHANGED base_exists
  /\ UNCHANGED <<remote, config, dirs, files, assets, member_filter, funVars>>

Min(a, b) == IF a < b THEN a ELSE b

\* publications[:max_posts]
Truncate(q, max_posts) == SubSeq(q, 1, Min(Len(q), max_posts))

Entry(member, directory_name, action) ==
  [username |-> member.username, directory_name |-> directory_name, action |-> action]

Ended(member, found, handled, how) ==
  [username |-> member.username, found |-> found, handled |-> handled, how |-> how]

\* _sync_member_posts up to the publication loop (lines 450-471), inside the try of
\* the member loop (lines 443-448).  unexpected: an exception leaves the function.
SyncMember(unexpected) ==
  /\ pc = "member"
  /\ mi <= Len(active_members)
  /\ unexpected => faults < MaxFaults
  /\ LET member == active_members[mi]
         fetched == GetPostsFromMemberSite(member, remote[member.name])
         limited == Truncate(fetched, config.max_posts_per_member)
     IN  IF unexpected
         THEN /\ faults' = faults + 1
              /\ log' = Append(log, Entry(member, <<>>, "MEMBER_ERROR"))
              /\ IF AfterMemberError(member.username) = "continue"
                 THEN /\ visited' = Append(visited, Ended(member, 0, 0, "error"))
                      /\ mi' = mi + 1
                      /\ pc' = "member"
                 ELSE /\ pc' = "crashed"
                      /\ UNCHANGED <<visited, mi>>
              /\ UNCHANGED <<publications, di, counts>>
         ELSE IF fetched = <<>>
         THEN /\ visited' = Append(visited, Ended(member, 0, 0, "nothing"))
              /\ mi' = mi + 1
              /\ UNCHANGED <<pc, publications, di, counts, log, faults>>
         ELSE /\ publications' = limited
              /\ di' = 1
              /\ counts' = ZeroCounts
              /\ pc' = "doc"
              /\ UNCHANGED <<visited, mi, log, faults>>
  /\ UNCHANGED <<remote, config, base_exists, dirs, files, assets, run, dry_run,
                 member_filter, active_members, written, tree0, last, history, funVars>>

\* _download_image_file: TRUE when the file was stored, FALSE when the request
\* gave no response or a status other than 200 (lines 406-419)
DownloadImageFile(status) == Ok200(status)

\* an image that could not be fetched ends the image loop
AfterImageFailureBreak(name) == "break"

\* lines 417-422 and 511-512: a failed download is logged and the loop goes on
AfterImageFailure(name) == "continue"

\* the image loop (lines 510-512): the downloads attempted, in order
RECURSIVE ImageLoop(_)
ImageLoop(image_downloads) ==
  IF image_downloads = <<>> THEN <<>>
  ELSE LET img == Head(image_downloads)
           stored == DownloadImageFile(img.status)
       IN  <<[name |-> img.name, stored |-> stored]>>
           \o (IF stored \/ AfterImageFailure(img.name) = "continue"
               THEN ImageLoop(Tail(image_downloads))
               ELSE <<>>)

\* the image files the attempts stored
DownloadedImages(index_path, attempts) ==
  {<<index_path, attempts[i].name>> : i \in {j \in 1..Len(attempts) : attempts[j].stored}}

Bump(c, action) ==
  CASE action = "CREATE" -> [c EXCEPT !.created = @ + 1]
    [] action = "UPDATE" -> [c EXCEPT !.updated = @ + 1]
    [] OTHER -> [c EXCEPT !.skipped = @ + 1]

\* One pass of the publication loop (lines 473-516).  io is the local failure the
\* pass meets: "read" (open for reading), "mkdir", "write" (open for writing).
ProcessPublication(io) ==
  /\ pc = "doc"
  /\ di <= Len(publications)
  /\ LET member == active_members[mi]
         publication == publications[di]
         r == CreateLocalPost(publication, member, config)
         existed == r.index_path \in DOMAIN files
         action == Decide(files, r.index_path, r.content)
         attempts == ImageLoop(r.image_downloads)
         raised ==
           \/ ~r.ok
           \/ (~dry_run /\ io = "read")
           \/ (~dry_run /\ io \in {"mkdir", "write"})
         reported ==
           IF ~r.ok THEN <<>>
           ELSE IF dry_run THEN <<Entry(member, publication.directory_name, "DRY_RUN")>>
           ELSE IF io = "read" THEN <<>>
           ELSE <<Entry(member, publication.directory_name, action)>>
     IN  /\ io # "ok" => (r.ok /\ ~dry_run /\ faults < MaxFaults)
         /\ io = "read" => existed
         /\ io \in {"mkdir", "write"} => action # "SKIP"
         /\ faults' = IF io = "ok" THEN faults ELSE faults + 1
         /\ log' = log \o reported
                   \o (IF raised THEN <<Entry(member, publication.directory_name, "ERROR")>>
                       ELSE <<>>)
         /\ last' = [valid |-> TRUE, username |-> member.username,
                     directory_name |-> publication.directory_name,
                     publication |-> [title |-> publication.title,
                                      author |-> publication.author,
                                      categories |-> publication.categories,
                                      content |-> publication.content,
                                      filename |-> publication.filename,
                                      original_frontmatter |-> publication.original_frontmatter],
                     rendered |-> r.ok, index_path |-> r.index_path, content |-> r.content,
                     existed |-> existed,
                     before |-> IF existed THEN files[r.index_path] ELSE <<>>,
                     action |-> IF r.ok /\ ~dry_run /\ io # "read" THEN action ELSE "",
                     image_downloads |-> r.image_downloads,
                     attempts |-> IF r.ok /\ ~dry_run /\ action # "SKIP" /\ io = "ok"
                                  THEN attempts ELSE <<>>,
                     failed |-> raised]
         /\ counts' = IF r.ok /\ ~dry_run /\ io # "read" THEN Bump(counts, action) ELSE counts
         /\ IF r.ok /\ ~dry_run /\ action # "SKIP" /\ io \in {"ok", "write"}
            THEN dirs' = dirs \cup {r.index_path}
            ELSE UNCHANGED dirs
         /\ IF r.ok /\ ~dry_run /\ action # "SKIP" /\ io = "ok"
            THEN /\ files' = (r.index_path :> WriteText(r.content)) @@ files
                 /\ assets' = assets \cup DownloadedImages(r.index_path, attempts)
                 /\ written' = written \cup {<<r.index_path, "index.qmd">>}
                                 \cup DownloadedImages(r.index_path, attempts)
            ELSE UNCHANGED <<files, assets, written>>
         /\ IF ~raised \/ AfterPublicationError(publication.directory_name) = "continue"
            THEN /\ di' = di + 1
                 /\ UNCHANGED <<pc, mi, visited>>
            ELSE IF AfterMemberError(member.username) = "continue"
            THEN /\ visited' = Append(visited, Ended(member, Len(publications), di, "error"))
                 /\ mi' = mi + 1
                 /\ pc' = "member"
                 /\ UNCHANGED di
            ELSE /\ pc' = "crashed"
                 /\ UNCHANGED <<di, mi, visited>>
  /\ UNCHANGED <<remote, config, base_exists, run, dry_run, member_filter, active_members,
                 publications, tree0, history, funVars>>

\* the end of _sync_member_posts (lines 518-519) and the next member
FinishMember ==
  /\ pc = "doc"
  /\ di > Len(publications)
  /\ visited' = Append(visited, Ended(active_members[mi], Len(publications), di - 1, "completed"))
  /\ mi' = mi + 1
  /\ pc' = "member"
  /\ UNCHANGED <<remote, config, base_exists, dirs, files, assets, run, dry_run,
                 member_filter, active_members, publications, di, counts, log, written,
                 tree0, faults, last, history, funVars>>

\* the member loop is exhausted: sync_member_posts returns
FinishRun ==
  /\ pc = "member"
  /\ mi > Len(active_members)
  /\ pc' = "done"
  /\ UNCHANGED <<remote, config, base_exists, dirs, files, assets, run, dry_run,
                 member_filter, active_members, mi, publications, di, counts, log, visited,
                 written, tree0, faults, last, history, funVars>>

Next ==
  \/ \E dry \in BOOLEAN, mkdir_ok \in BOOLEAN : StartRun(dry, mkdir_ok)
  \/ \E unexpected \in BOOLEAN : SyncMember(unexpected)
  \/ \E io \in {"ok", "read", "mkdir", "write"} : ProcessPublication(io)
  \/ FinishMember
  \/ FinishRun

Spec == Init /\ [][Next]_vars

(***************************************************************************)
(* The parser, the renderer, the resolver and the directory naming applied *)
(* to drawn arguments.                                                     *)
(***************************************************************************)
AuthorValues ==
  {Absent, Null, Str("Ann"), Other("42"), List(<<>>), List(<<"Ann", "Bo">>)}

CategoryValues ==
  {Absent, Null, Str("paper"), Str("p"), Str(Marker)}
  \cup {List(q) : q \in SeqsUpTo({"paper", "x", Marker}, MaxCats)}

RenderFms ==
  {[title |-> t, author |-> a, categories |-> c, type |-> e, source |-> e, doi |-> e] :
     t \in {Absent, Str("Paper X")}, a \in AuthorValues, c \in CategoryValues,
     e \in {Absent, Str("extra")}}

ResolveFms ==
  {[EmptyFm EXCEPT !.categories = c, !.type = t] :
     c \in CategoryValues, t \in {Absent, Null, Str("paper"), Str("memo")}}

EdgeDocs ==
  {PlainDoc(<<"a">>),
   [head |-> "delim1", meta |-> [kind |-> "null", fm |-> EmptyFm], body |-> <<"a">>],
   [head |-> "delim2", meta |-> [kind |-> "null", fm |-> EmptyFm], body |-> <<"a">>],
   MalformedDoc}

ResolveMembers == {Ann, Lee}

ResolveConfigs ==
  {[add_attribution |-> TRUE, max_posts_per_member |-> MaxPostsDefault,
    category_mapping |-> cm, has_type_mapping |-> h,
    type_mapping |-> [t \in {"memo"} |-> <<"/", "memos">>]] :
     cm \in {[c \in {} |-> <<>>], PaperMapping,
             [c \in {"p", "x", "paper"} |-> IF c = "paper" THEN <<"papers", "/">> ELSE <<c, c>>]},
     h \in BOOLEAN}

Usernames == {<<"a">>, <<"A">>, <<"b">>, <<"a", "-", "b">>}
DirNames == {<<"b">>, <<"c">>, <<"b", "-", "c">>}

FunInit ==
  /\ fn \in {"render", "resolve", "name", "parse"}
  /\ step = "input"
  /\ out = NoOut
  /\ \/ /\ fn = "render"
        /\ arg \in {[NoArg EXCEPT !.raw = d, !.member = m, !.cfg = c] :
                      d \in {FmDoc(f, <<"a">>) : f \in RenderFms} \cup EdgeDocs,
                      m \in ResolveMembers, c \in Configs}
     \/ /\ fn = "resolve"
        /\ arg \in {[NoArg EXCEPT !.raw = d, !.member = m, !.cfg = c] :
                      d \in {FmDoc(f, <<"a">>) : f \in ResolveFms} \cup EdgeDocs,
                      m \in ResolveMembers, c \in ResolveConfigs}
     \/ /\ fn = "name"
        /\ arg \in {[NoArg EXCEPT !.u1 = a, !.d1 = b, !.u2 = c, !.d2 = d] :
                      a \in Usernames, b \in DirNames, c \in Usernames, d \in DirNames}
     \/ /\ fn = "parse"
        /\ arg \in {[NoArg EXCEPT !.raw = d, !.member = m] :
                      d \in {FmDoc(f, <<"a">>) : f \in RenderFms} \cup EdgeDocs,
                      m \in ResolveMembers}
  /\ remote = [n \in {"Ann", "Bob", "Lee"} |-> Unlisted(404, NoRaw)]
  /\ config = arg.cfg
  /\ base_exists = FALSE
  /\ dirs = {}
  /\ files = <<>>
  /\ assets = {}
  /\ tree0 = [base |-> FALSE, dirs |-> {}, files |-> <<>>, assets |-> {}]
  /\ run = 0
  /\ dry_run = FALSE
  /\ member_filter = <<>>
  /\ pc = "fun"
  /\ active_members = <<>>
  /\ mi = 1
  /\ publications = <<>>
  /\ di = 1
  /\ counts = ZeroCounts
  /\ log = <<>>
  /\ visited = <<>>
  /\ written = {}
  /\ faults = 0
  /\ last = NoLast
  /\ history = <<>>

Fetched(parsed, member) ==
  WithDirectory(parsed.pub, <<"x">>, PublicationsPath(member), <<>>)

\* _parse_qmd_content, then _create_local_post on what it returned
ApplyRender ==
  /\ fn = "render"
  /\ step = "input"
  /\ LET parsed == ParseQmdContent(arg.raw, "index.qmd", arg.member)
         r == CreateLocalPost(Fetched(parsed, arg.member), arg.member, arg.cfg)
     IN  out' = IF parsed.ok
                THEN [NoOut EXCEPT !.parsed = TRUE, !.rendered = r.ok,
                                   !.frontmatter = r.frontmatter,
                                   !.publication = r.publication]
                ELSE NoOut
  /\ step' = "rendered"
  /\ UNCHANGED <<syncVars, fn, arg>>

\* _create_local_post once more on the same publication dict
RenderAgain ==
  /\ fn = "render"
  /\ step = "rendered"
  /\ out.rendered
  /\ LET r == CreateLocalPost(out.publication, arg.member, arg.cfg)
     IN  out' = [out EXCEPT !.again = r.ok, !.frontmatter2 = r.frontmatter]
  /\ step' = "twice"
  /\ UNCHANGED <<syncVars, fn, arg>>

\* _parse_qmd_content, then _get_destination_subdir on what it returned
ApplyResolve ==
  /\ fn = "resolve"
  /\ step = "input"
  /\ LET parsed == ParseQmdContent(arg.raw, "index.qmd", arg.member)
         d == GetDestinationSubdir(Fetched(parsed, arg.member), arg.member, arg.cfg)
     IN  out' = IF parsed.ok
                THEN [NoOut EXCEPT !.parsed = TRUE, !.resolved = d.ok, !.dir = d.dir,
                                   !.publication = Fetched(parsed, arg.member)]
                ELSE NoOut
  /\ step' = "resolved"
  /\ UNCHANGED <<syncVars, fn, arg>>

\* the local directory names of two (username, remote directory) pairs
ApplyLocalDirName ==
  /\ fn = "name"
  /\ step = "input"
  /\ out' = [NoOut EXCEPT !.n1 = LocalDirName(arg.u1, arg.d1),
                          !.n2 = LocalDirName(arg.u2, arg.d2)]
  /\ step' = "named"
  /\ UNCHANGED <<syncVars, fn, arg>>

\* _parse_qmd_content alone
ApplyParse ==
  /\ fn = "parse"
  /\ step = "input"
  /\ LET parsed == ParseQmdContent(arg.raw, "index.qmd", arg.member)
     IN  out' = IF parsed.ok
                THEN [NoOut EXCEPT !.parsed = TRUE, !.publication = parsed.pub]
                ELSE NoOut
  /\ step' = "parsed"
  /\ UNCHANGED <<syncVars, fn, arg>>

FunNext == ApplyRender \/ RenderAgain \/ ApplyResolve \/ ApplyLocalDirName \/ ApplyParse

FunSpec == FunInit /\ [][FunNext]_vars

(***************************************************************************)
(* Properties.                                                             *)
(***************************************************************************)
MemberOf(username) == CHOOSE m \in {Members[i] : i \in 1..Len(Members)} : m.username = username

Previous == history[run - 1]

AfterRealRunTwice ==
  /\ pc = "done"
  /\ run >= 2
  /\ ~dry_run
  /\ ~Previous.dry_run
  /\ Previous.ended = "done"
  /\ faults = 0

\* C1: in a run that is not a dry run, a publication with no primary file at its
\* target path is a CREATE; one whose primary file equals the rendered text after
\* trimming leading and trailing whitespace on both sides is a SKIP and is not
\* written; every other one is an UPDATE; CREATE and UPDATE write the rendered text.
C1_DecisionByTrimmedText ==
  (last.valid /\ last.rendered /\ ~dry_run /\ last.action # "") =>
    /\ last.action =
         IF ~last.existed THEN "CREATE"
         ELSE IF Strip(last.before) = Strip(last.content) THEN "SKIP"
         ELSE "UPDATE"
    /\ (last.action = "SKIP") => files[last.index_path] = last.before
    /\ (last.action # "SKIP" /\ ~last.failed) => files[last.index_path] = last.content

\* C2: after two runs that are not dry runs, with the same configuration and the
\* same remote answers and no local failure, the second run has created nothing,
\* updated nothing and written no file.
C2_SecondRunSkipsAll ==
  AfterRealRunTwice =>
    /\ \A i \in 1..Len(log) : log[i].action \notin {"CREATE", "UPDATE"}
    /\ written = {}

\* C3: from its start to its end a dry run leaves the local publications tree
\* (the root, the directories, the primary files, the image files) as it was.
C3_DryRunLeavesTree ==
  (dry_run /\ pc \in {"member", "doc", "done", "crashed"}) => Tree = tree0

C3_Witness ==
  /\ dry_run
  /\ pc = "done"
  /\ ~tree0.base
  /\ \E i \in 1..Len(log) : log[i].action = "DRY_RUN"

\* C4: what a dry run reports for a publication is the decision a run that is not
\* a dry run takes for it from the same local tree: its "would create/update" is
\* reported only where that decision is CREATE or UPDATE.
C4_DryRunReportsTheDecision ==
  (dry_run /\ last.valid /\ last.rendered /\ Tree = tree0) =>
    Decide(files, last.index_path, last.content) \in {"CREATE", "UPDATE"}

\* the categories a document declares, in order
DeclaredCategories(v) ==
  IF v.tag = "list" THEN v.l ELSE IF v.tag = "str" THEN <<v.s>> ELSE <<>>

\* C5: the destination is the member's override with its slashes trimmed when
\* there is one; otherwise the mapping of the first declared category that the
\* category mapping has; otherwise the type mapping of the document's type
\* (default "post"); otherwise "posts".
C5_ResolverPrecedence ==
  (fn = "resolve" /\ step = "resolved" /\ out.parsed) =>
    LET post == out.publication
        hit == FirstMapped(DeclaredCategories(post.categories), arg.cfg.category_mapping)
        post_type == Get(post.original_frontmatter.type, Str("post"))
        type_mapping == TypeMappingOf(arg.cfg)
    IN  /\ out.resolved
        /\ out.dir =
             IF arg.member.has_destination_path THEN StripSlashes(arg.member.destination_path)
             ELSE IF hit # <<>> THEN StripSlashes(arg.cfg.category_mapping[hit[1]])
             ELSE IF post_type.tag = "str" /\ post_type.s \in DOMAIN type_mapping
                  THEN type_mapping[post_type.s]
             ELSE <<"posts">>

IsInfix(x, q) == \E i \in 0..Len(q) : i + Len(x) <= Len(q) /\ SubSeq(q, i + 1, i + Len(x)) = x

\* C6: the path a publication is compared and written at lies under the
\* subdirectory the destination resolver returns for it.
C6_PathUnderResolvedSubdir ==
  (last.valid /\ last.rendered) =>
    LET d == GetDestinationSubdir(last.publication, MemberOf(last.username), config)
    IN  d.ok => IsInfix(d.dir, FullPath(last.index_path))

\* C7: a document with a metadata block that the parser accepts renders, its
\* rendered categories hold the marker category, and rendering it again gives
\* the same categories.
C7_MarkerAlwaysRendered ==
  (fn = "render" /\ step \in {"rendered", "twice"} /\ out.parsed /\ arg.raw.head = "delim2") =>
    /\ out.rendered
    /\ out.frontmatter.categories.tag = "list"
    /\ InSeq(Marker, out.frontmatter.categories.l)
    /\ step = "twice" => (out.again /\ out.frontmatter2.categories = out.frontmatter.categories)

\* C8: the author of every rendered output is a list with at least one name.
C8_AuthorNonEmptyList ==
  (fn = "render" /\ step \in {"rendered", "twice"} /\ out.rendered) =>
    /\ out.frontmatter.author.tag = "list"
    /\ out.frontmatter.author.l # <<>>

\* C9: two different (member, remote directory) pairs, of one member or of two
\* members whose user names differ in more than case, never get the same local
\* directory name.
C9_LocalNamesCollisionFree ==
  (/\ fn = "name"
   /\ step = "named"
   /\ <<arg.u1, arg.d1>> # <<arg.u2, arg.d2>>
   /\ (arg.u1 = arg.u2 \/ Lower(arg.u1) # Lower(arg.u2))) => out.n1 # out.n2

Usernames2(q) == [i \in 1..Len(q) |-> q[i].username]

ListingOf(username) == remote[MemberOf(username).name]

\* C11: a member whose listing request gets no response or a status other than
\* 200 and 404 is synced through the direct fetch: when the known directory's
\* index.qmd is fetched there and parses, the member has that one publication;
\* a member whose listing request gets 404 has no publication, whatever the
\* direct fetch would answer, and the run goes on with the next member.
C11_FallbackUnless404 ==
  \A i \in 1..Len(visited) :
    LET v == visited[i]
        member == MemberOf(v.username)
        rm == ListingOf(v.username)
        fetchable ==
          Ok200(rm.raw.index) /\ ParseQmdContent(rm.raw.doc, "index.qmd", member).ok
    IN  v.how # "error" =>
          /\ (rm.listing \notin {200, 404} /\ fetchable) => v.found = 1
          /\ rm.listing = 404 => (v.found = 0 /\ v.how = "nothing")

\* C12: a document that starts with the delimiter, holds a second one and has a
\* well-formed metadata block with any of title, author and categories, or with
\* no field at all, parses: the parser returns a publication whose title is the
\* block's or else the title derived from the file name, whose author is the
\* block's or else the member's display name, and whose categories are the
\* block's or else the empty list.
C12_ParserDefaults ==
  (/\ fn = "parse"
   /\ step = "parsed"
   /\ arg.raw.head = "delim2"
   /\ arg.raw.meta.kind \in {"map", "null"}) =>
    LET fm == IF arg.raw.meta.kind = "map" THEN arg.raw.meta.fm ELSE EmptyFm
    IN  /\ out.parsed
        /\ out.publication.title = Get(fm.title, Str(TitleFromFilename("index.qmd")))
        /\ out.publication.author = Get(fm.author, Str(arg.member.name))
        /\ out.publication.categories = Get(fm.categories, List(<<>>))
        /\ out.publication.original_frontmatter = fm

\* how many times x occurs in the sequence q
Count(x, q) == Cardinality({i \in 1..Len(q) : q[i] = x})

\* C13: in the rendered metadata block every key of the original block other
\* than title, author and categories has its original value, and every category
\* of the original block is among the rendered categories, at most once more
\* often than in the original block.
C13_PassthroughAndMerge ==
  (/\ fn = "render"
   /\ step = "rendered"
   /\ out.rendered
   /\ arg.raw.head = "delim2"
   /\ arg.raw.meta.kind = "map") =>
    LET original_fm == arg.raw.meta.fm
        rendered == out.frontmatter
        original_cats == DeclaredCategories(original_fm.categories)
    IN  /\ original_fm.type # Absent => rendered.type = original_fm.type
        /\ original_fm.doi # Absent => rendered.doi = original_fm.doi
        /\ original_fm.source # Absent =>
             (DOMAIN rendered.source = DOMAIN original_fm.source
              /\ rendered.source = original_fm.source)
        /\ \A i \in 1..Len(original_cats) :
             LET c == original_cats[i]
                 rendered_cats == DeclaredCategories(rendered.categories)
             IN  /\ Count(c, rendered_cats) >= 1
                 /\ Count(c, rendered_cats) <= Count(c, original_cats) + 1

Names(q) == [i \in 1..Len(q) |-> q[i].name]

\* C14: in a run that is not a dry run, a publication that is created or updated
\* has its primary file written with the rendered text and a download attempted
\* for each of its image files, in order, whichever of the downloads failed; the
\* downloads that succeeded are stored; and the publications after it in the
\* member's list are handled as well.
C14_AssetFailuresDoNotBlock ==
  /\ (last.valid /\ ~dry_run /\ last.action \in {"CREATE", "UPDATE"} /\ ~last.failed) =>
       /\ last.index_path \in DOMAIN files
       /\ files[last.index_path] = WriteText(last.content)
       /\ Names(last.attempts) = Names(last.image_downloads)
       /\ \A i \in 1..Len(last.image_downloads) :
            Ok200(last.image_downloads[i].status) =>
              <<last.index_path, last.image_downloads[i].name>> \in assets
  /\ \A i \in 1..Len(visited) :
       visited[i].how = "completed" => visited[i].handled = visited[i].found

C14_Witness ==
  /\ ~dry_run
  /\ pc = "done"
  /\ \E i, j \in 1..Len(log) :
       /\ i < j
       /\ log[i].username = Ann.username
       /\ log[i].directory_name = <<"x">>
       /\ log[i].action \in {"CREATE", "UPDATE"}
       /\ log[j].username = Ann.username
       /\ log[j].directory_name = <<"y">>
       /\ log[j].action = "CREATE"
  /\ <<LocalDirName(Ann.username, <<"x">>), "featured.png">> \notin assets
  /\ <<LocalDirName(Ann.username, <<"x">>), "featured.jpg">> \in assets
  /\ LocalDirName(Ann.username, <<"x">>) \in DOMAIN files
  /\ LocalDirName(Ann.username, <<"y">>) \in DOMAIN files

====
